---- MODULE Spec2Model ----
(***************************************************************************)
(* Model of util/process-image.py: the image compression pipeline          *)
(* (_compress and the four _compress_<format> functions with their         *)
(* similarity-guided quality search) and the resizer (_resize).            *)
(*                                                                         *)
(* Python values are represented as follows:                               *)
(*   - None is the empty tuple <<>>, any other optional value v is <<v>>;  *)
(*   - a structural similarity in [0, 1] is the integer s in 0..ScoreMax   *)
(*     standing for s / ScoreMax (only the order of scores matters);       *)
(*   - a Python float is a positive IEEE-754 double [hi, lo, e] with the   *)
(*     53 bit mantissa hi * 2^26 + lo and the value mantissa * 2^e.        *)
(***************************************************************************)
EXTENDS Integers, Sequences, FiniteSets, Bags, TLC

VARIABLES
    args,                \* the argparse namespace handed to _compress
    img,                 \* the libvips image: width, height, vips-loader
    ssim,                \* similarity of the candidate encoded at factor q
                         \* by the encoder of the target format, or Raises
    target_format,       \* parameter of _compress
    compression_factor,  \* local variable of _compress_<format>
    lossless,            \* local variable of _compress_webp/_compress_avif
    mssim,               \* local variable of _compress_<format>
    pc,                  \* position in _compress / _compress_<format>
    calls,               \* the encoder calls made so far, in order
    first,               \* outcome of the previous invocation, if any
    runs,                \* number of invocations started
    target_width,        \* parameter of _resize
    target_height,       \* local variable of _resize
    thumbnail,           \* the arguments of the thumbnail_image call, if made
    resized,             \* result of _resize
    rpc,                 \* position in _resize
    command,             \* args.command
    destination,         \* whether args.destination is an existing directory
    source,              \* the file name of args.source, character by character
    formats,             \* args.formats
    sizes,               \* args.sizes
    stem,                \* local variable of cmd_responsive
    si,                  \* position of cmd_responsive in args.sizes
    fi,                  \* position of the loop over args.formats
    override_stem,       \* parameter of _compress
    dest,                \* local variable of _compress
    output,              \* local variable of cmd_compress / cmd_responsive
    disk,                \* the files written to the destination, in order
    events,              \* the calls of _resize and _compress and their ends
    printed,             \* the files main lists as generated
    reported,            \* the units main names as failed
    exit_status,         \* the exit status of the process
    ppc,                 \* position in main / cmd_compress / cmd_responsive
    ct_tags,             \* the attribute ct_tags of the build environments
    tag_pages,           \* what add_tag_pages has returned
    last,                \* the handler of content_tags called last
    opc,                 \* whether an environment of a parallel build exists
    steps,               \* number of handlers of content_tags called
    uri,                 \* the suffix of node["uri"] of the image node
    files,               \* the image files in the source directory
    responsive_sources,  \* node["responsive_sources"]
    body,                \* the body of the HTML translator
    ipc                  \* position in process_doc / visit_image

vars == <<args, img, ssim, target_format, compression_factor, lossless,
          mssim, pc, calls, first, runs, target_width, target_height,
          thumbnail, resized, rpc, command,
          destination, source, formats, sizes, stem, si,
          fi, override_stem, dest, output, disk, events, printed, reported,
          exit_status, ppc, ct_tags, tag_pages, last, opc, steps, uri, files,
          responsive_sources, body, ipc>>

compress_vars == <<args, ssim, target_format, compression_factor, lossless,
                   mssim, pc, calls, first, runs>>

resize_vars == <<target_width, target_height, thumbnail, resized, rpc>>

pipeline_vars == <<command, destination, source, formats, sizes, stem, si, fi,
                   override_stem, dest, output, disk, events, printed,
                   reported, exit_status, ppc>>

tags_vars == <<ct_tags, tag_pages, last, opc, steps>>

image_vars == <<uri, files, responsive_sources, body, ipc>>

(***************************************************************************)
(* Bounds of the model.                                                    *)
(***************************************************************************)
\* starting qualities are taken from the top QWindow values argparse allows
QWindow == 2
\* the search is followed for Overshoot steps beyond the maximum quality
Overshoot == 2
\* number of distinct non-zero similarity scores
ScoreMax == 2
\* number of invocations on the same image
MaxRuns == 2
\* largest source width and height
MaxDim == 9
\* largest number of handlers of content_tags called in one behaviour
MaxSteps == 5
\* largest number of formats and of sizes requested in one run
MaxFormats == 2
MaxSizes == 2

(***************************************************************************)
(* Program constants.                                                      *)
(***************************************************************************)
TFORMAT_JPG == "jpg"
TFORMAT_PNG == "png"
TFORMAT_WEBP == "webp"
TFORMAT_AVIF == "avif"

DEF_JPEG_COMPRESSION == 75
DEF_PNG_COMPRESSION == 6
DEF_WEBP_COMPRESSION == 75
DEF_WEBP_LOSSLESS == <<>>
DEF_AVIF_COMPRESSION == 50
DEF_AVIF_LOSSLESS == <<>>

None == <<>>

\* the quality range of the lossy encoders of libvips (Q) and the range of
\* the PNG compression level, as documented in the docstrings
MaxQuality == 100
MaxPngCompression == 9

\* choices=range(0, 100) and choices=range(0, 10) of the argument parser
QualityChoices == 0..99
PngChoices == 0..9

Formats == {TFORMAT_JPG, TFORMAT_PNG, TFORMAT_WEBP, TFORMAT_AVIF}
Lossy == {TFORMAT_JPG, TFORMAT_WEBP, TFORMAT_AVIF}

Scores == 0..ScoreMax
StartQualities == {q \in QualityChoices : q >= MaxQuality - QWindow}
Loaders == {"jpegload", "pngload"}
LosslessArgs == {None, <<TRUE>>, <<FALSE>>}


(***************************************************************************)
(* The configuration record.                                               *)
(***************************************************************************)
DefaultArgs ==
    [required_ssim |-> None,
     jpeg_compression |-> DEF_JPEG_COMPRESSION,
     png_compression |-> DEF_PNG_COMPRESSION,
     webp_compression |-> DEF_WEBP_COMPRESSION,
     webp_lossless |-> DEF_WEBP_LOSSLESS,
     avif_compression |-> DEF_AVIF_COMPRESSION,
     avif_lossless |-> DEF_AVIF_LOSSLESS]

\* the namespaces in which the options of format f are given on the command
\* line and every other format keeps its defaults
FormatOptions(f) ==
    CASE f = TFORMAT_JPG ->
           {[DefaultArgs EXCEPT !.jpeg_compression = q] : q \in StartQualities}
      [] f = TFORMAT_PNG ->
           {[DefaultArgs EXCEPT !.png_compression = c] : c \in PngChoices}
      [] f = TFORMAT_WEBP ->
           {[DefaultArgs EXCEPT !.webp_compression = q, !.webp_lossless = l] :
               q \in StartQualities, l \in LosslessArgs}
      [] f = TFORMAT_AVIF ->
           {[DefaultArgs EXCEPT !.avif_compression = q, !.avif_lossless = l] :
               q \in StartQualities, l \in LosslessArgs}

SsimOptions == {None} \cup {<<s>> : s \in Scores}

\* the compression_factor keyword argument _compress passes for format f
ConfiguredFactor(a, f) ==
    CASE f = TFORMAT_JPG -> a.jpeg_compression
      [] f = TFORMAT_PNG -> a.png_compression
      [] f = TFORMAT_WEBP -> a.webp_compression
      [] f = TFORMAT_AVIF -> a.avif_compression

\* the lossless keyword argument _compress passes for format f
ConfiguredLossless(a, f) ==
    CASE f = TFORMAT_WEBP -> a.webp_lossless
      [] f = TFORMAT_AVIF -> a.avif_lossless
      [] OTHER -> None

(***************************************************************************)
(* The libvips encoders.  A call is recorded with its operation, the       *)
(* quality (or compression level) and the lossless flag it was given.      *)
(***************************************************************************)
\* the operation that writes the file of format f
FileOp(f) ==
    CASE f = TFORMAT_JPG -> "jpegsave"
      [] f = TFORMAT_PNG -> "pngsave"
      [] f = TFORMAT_WEBP -> "webpsave"
      [] f = TFORMAT_AVIF -> "heifsave"

\* a search whose candidates are written to disk
BufferOpOnDisk(f) == FileOp(f)

\* the operation that encodes a candidate of format f in memory
BufferOp(f) ==
    CASE f = TFORMAT_JPG -> "jpegsave_buffer"
      [] f = TFORMAT_WEBP -> "webpsave_buffer"
      [] f = TFORMAT_AVIF -> "heifsave_buffer"

BufferOps == {"jpegsave_buffer", "webpsave_buffer", "heifsave_buffer"}
FileOps == {"jpegsave", "pngsave", "webpsave", "heifsave"}

EncoderCall(op, q, l) == [op |-> op, factor |-> q, lossless |-> l]

\* the values the encoder of format f accepts
ValidFactor(f, q) ==
    IF f = TFORMAT_PNG THEN q \in 0..MaxPngCompression ELSE q \in 0..MaxQuality

\* An encoder that is handed a factor outside of its range either raises or
\* encodes with some factor of its own choosing; which of the two it does, and
\* how similar the result is, is fixed for a given image, format and factor.
Raises == -1
FactorsTried == (MaxQuality - QWindow)..(MaxQuality + Overshoot)
Encoders(f) ==
    IF f = TFORMAT_PNG
      THEN {[q \in FactorsTried |-> ScoreMax]}
      ELSE {e \in [FactorsTried -> Scores \cup {Raises}] :
              \A q \in FactorsTried : ValidFactor(f, q) => e[q] # Raises}

\* the outcome of encoding img with factor q in the target format: Raises, or
\* the similarity of the encoded image to img
Encode(q) ==
    IF q \in DOMAIN ssim THEN ssim[q]
    ELSE IF ValidFactor(target_format, q) THEN ScoreMax
    ELSE Raises

(***************************************************************************)
(* _compress: dispatch on the target format.                               *)
(***************************************************************************)
\* _compress(img, TFORMAT_JPG, args) calls _compress_jpg
\* a JPEG unit that takes up the factor the unit before it ended with
CompressJpgResuming ==
    /\ pc = "_compress"
    /\ target_format = TFORMAT_JPG
    /\ compression_factor' = IF first = None THEN args.jpeg_compression
                             ELSE first[1].final
    /\ pc' = "required_ssim"
    /\ UNCHANGED <<args, img, ssim, target_format, lossless, mssim, calls,
                   first, runs, resize_vars, pipeline_vars,
                   tags_vars, image_vars>>

CompressJpg ==
    /\ pc = "_compress"
    /\ target_format = TFORMAT_JPG
    /\ compression_factor' = args.jpeg_compression
    /\ pc' = "required_ssim"
    /\ UNCHANGED <<args, img, ssim, target_format, lossless, mssim, calls,
                   first, runs, resize_vars, pipeline_vars,
                   tags_vars, image_vars>>

\* a PNG unit that is handed the required similarity like the lossy formats
CompressPngSearching ==
    /\ pc = "_compress"
    /\ target_format = TFORMAT_PNG
    /\ compression_factor' = args.png_compression
    /\ pc' = "required_ssim"
    /\ UNCHANGED <<args, img, ssim, target_format, lossless, mssim, calls,
                   first, runs, resize_vars, pipeline_vars,
                   tags_vars, image_vars>>

\* _compress(img, TFORMAT_PNG, args) calls _compress_png, which takes no
\* required_ssim and goes straight to pngsave
CompressPng ==
    /\ pc = "_compress"
    /\ target_format = TFORMAT_PNG
    /\ compression_factor' = args.png_compression
    /\ pc' = "save"
    /\ UNCHANGED <<args, img, ssim, target_format, lossless, mssim, calls,
                   first, runs, resize_vars, pipeline_vars,
                   tags_vars, image_vars>>

\* _compress(img, TFORMAT_WEBP, args) calls _compress_webp
CompressWebp ==
    /\ pc = "_compress"
    /\ target_format = TFORMAT_WEBP
    /\ compression_factor' = args.webp_compression
    /\ lossless' = args.webp_lossless
    /\ pc' = "lossless"
    /\ UNCHANGED <<args, img, ssim, target_format, mssim, calls, first, runs,
                   resize_vars, pipeline_vars,
                   tags_vars, image_vars>>

\* _compress(img, TFORMAT_AVIF, args) calls _compress_avif
CompressAvif ==
    /\ pc = "_compress"
    /\ target_format = TFORMAT_AVIF
    /\ compression_factor' = args.avif_compression
    /\ lossless' = args.avif_lossless
    /\ pc' = "lossless"
    /\ UNCHANGED <<args, img, ssim, target_format, mssim, calls, first, runs,
                   resize_vars, pipeline_vars,
                   tags_vars, image_vars>>

(***************************************************************************)
(* _compress_webp / _compress_avif: resolution of the lossless flag.       *)
(***************************************************************************)
\* the resolution with its two branches exchanged
AutoLosslessExchanged(l, loader) ==
    IF l = None THEN <<loader = "jpegload">> ELSE l

\* if lossless is None: lossless = (img.get("vips-loader") != "jpegload")
AutoLossless(l, loader) ==
    IF l = None THEN <<loader # "jpegload">> ELSE l

ResolveLossless ==
    /\ pc = "lossless"
    /\ lossless' = AutoLossless(lossless, img.loader)
    /\ pc' = "required_ssim"
    /\ UNCHANGED <<args, img, ssim, target_format, compression_factor, mssim,
                   calls, first, runs, resize_vars, pipeline_vars,
                   tags_vars, image_vars>>

(***************************************************************************)
(* _compress_jpg / _compress_webp / _compress_avif: the quality search.    *)
(***************************************************************************)
\* if required_ssim is not None:
SearchRequested(required_ssim) == required_ssim # None

\* while mssim <= required_ssim:
LoopCondition(m, required_ssim) == m <= required_ssim[1]

\* a search that raises the factor in jumps
NextFactorJump(q) == q + 2

\* compression_factor += 1
NextFactor(q) == q + 1

\* the search is entered with mssim = 0, or skipped
EnterSearch ==
    /\ pc = "required_ssim"
    /\ IF SearchRequested(args.required_ssim)
         THEN mssim' = 0 /\ pc' = "while"
         ELSE mssim' = mssim /\ pc' = "save"
    /\ UNCHANGED <<args, img, ssim, target_format, compression_factor,
                   lossless, calls, first, runs, resize_vars, pipeline_vars,
                   tags_vars, image_vars>>

\* One iteration of the loop: the factor is raised, the candidate is encoded
\* into a buffer with the raised factor and its similarity is computed.
\* Iterations are followed up to Overshoot steps beyond the maximum quality.
SearchIteration ==
    /\ pc = "while"
    /\ LoopCondition(mssim, args.required_ssim)
    /\ compression_factor < MaxQuality + Overshoot
    /\ compression_factor' = NextFactor(compression_factor)
    /\ calls' = Append(calls, EncoderCall(BufferOp(target_format),
                                          compression_factor', lossless))
    /\ IF Encode(compression_factor') = Raises
         THEN mssim' = mssim /\ pc' = "raised"
         ELSE mssim' = Encode(compression_factor') /\ pc' = "while"
    /\ UNCHANGED <<args, img, ssim, target_format, lossless, first, runs,
                   resize_vars, pipeline_vars,
                   tags_vars, image_vars>>

\* the loop condition is false: the loop is left
SearchExit ==
    /\ pc = "while"
    /\ ~LoopCondition(mssim, args.required_ssim)
    /\ pc' = "save"
    /\ UNCHANGED <<args, img, ssim, target_format, compression_factor,
                   lossless, mssim, calls, first, runs, resize_vars, pipeline_vars,
                   tags_vars, image_vars>>

(***************************************************************************)
(* _compress_<format>: the file is written to disk.                        *)
(***************************************************************************)
\* a file written one step beyond the factor the function holds
SaveFactorNext(q) == q + 1

\* the quality handed to jpegsave / pngsave / webpsave / heifsave
SaveFactor(q) == q

Save ==
    /\ pc = "save"
    /\ calls' = Append(calls, EncoderCall(FileOp(target_format),
                                          SaveFactor(compression_factor),
                                          lossless))
    /\ pc' = IF Encode(SaveFactor(compression_factor)) = Raises
               THEN "raised"
               ELSE "returned"
    /\ UNCHANGED <<args, img, ssim, target_format, compression_factor,
                   lossless, mssim, first, runs, resize_vars, pipeline_vars,
                   tags_vars, image_vars>>

(***************************************************************************)
(* A further invocation on the same source, for the same format and with   *)
(* the same required similarity, but with any starting factor.             *)
(***************************************************************************)
Invoke ==
    /\ pc = "returned"
    /\ runs < MaxRuns
    /\ runs' = runs + 1
    /\ first' = <<[start |-> ConfiguredFactor(args, target_format),
                   final |-> compression_factor]>>
    /\ \E a \in FormatOptions(target_format) :
         /\ ConfiguredLossless(a, target_format)
              = ConfiguredLossless(args, target_format)
         /\ args' = [a EXCEPT !.required_ssim = args.required_ssim]
    /\ compression_factor' = 0
    /\ lossless' = None
    /\ mssim' = 0
    /\ calls' = <<>>
    /\ pc' = "_compress"
    /\ UNCHANGED <<img, ssim, target_format, resize_vars, pipeline_vars,
                   tags_vars, image_vars>>

CompressInit ==
    /\ target_format \in Formats
    /\ \E a \in FormatOptions(target_format), t \in SsimOptions :
         args = [a EXCEPT !.required_ssim = t]
    /\ img \in [width : {MaxDim}, height : {MaxDim}, loader : Loaders]
    /\ ssim \in Encoders(target_format)
    /\ compression_factor = 0
    /\ lossless = None
    /\ mssim = 0
    /\ calls = <<>>
    /\ first = None
    /\ runs = 1
    /\ pc = "_compress"

ResizeIdle ==
    /\ target_width = 0
    /\ target_height = 0
    /\ thumbnail = None
    /\ resized = None
    /\ rpc = "idle"

TagsIdle ==
    /\ ct_tags = [e \in {"env", "other"} |-> None]
    /\ tag_pages = None
    /\ last = None
    /\ opc = "off"
    /\ steps = 0

ImagesIdle ==
    /\ uri = ".jpg"
    /\ files = {}
    /\ responsive_sources = None
    /\ body = <<>>
    /\ ipc = "idle"

PipelineIdle ==
    /\ command = "compress"
    /\ destination = "dir"
    /\ source = <<"p", ".", TFORMAT_JPG>>
    /\ formats = <<target_format>>
    /\ sizes = None
    /\ stem = None
    /\ si = 0
    /\ fi = 0
    /\ override_stem = None
    /\ dest = None
    /\ output = <<>>
    /\ disk = <<>>
    /\ events = <<>>
    /\ printed = <<>>
    /\ reported = {}
    /\ exit_status = None
    /\ ppc = "idle"

Init == CompressInit /\ ResizeIdle /\ PipelineIdle /\ TagsIdle /\ ImagesIdle

Next ==
    \/ CompressJpg
    \/ CompressPng
    \/ CompressWebp
    \/ CompressAvif
    \/ ResolveLossless
    \/ EnterSearch
    \/ SearchIteration
    \/ SearchExit
    \/ Save
    \/ Invoke

Spec == Init /\ [][Next]_vars

(***************************************************************************)
(* Python floats: IEEE-754 doubles, positive and normal, as the record     *)
(* [hi, lo, e] with the value (hi * 2^26 + lo) * 2^e, 2^26 <= hi < 2^27    *)
(* and 0 <= lo < 2^26.  Numbers of up to 54 bits are pairs [hi, lo].       *)
(***************************************************************************)
Base == 2^26

Pair(hi, lo) == [hi |-> hi, lo |-> lo]

Geq(p, q) == p.hi > q.hi \/ (p.hi = q.hi /\ p.lo >= q.lo)

Sub(p, q) ==
    IF p.lo >= q.lo
      THEN Pair(p.hi - q.hi, p.lo - q.lo)
      ELSE Pair(p.hi - q.hi - 1, p.lo + Base - q.lo)

\* 2 * p + bit
Shift(p, bit) ==
    Pair(2 * p.hi + ((2 * p.lo) \div Base), ((2 * p.lo) % Base) + bit)

\* p \div 2
Half(p) == Pair(p.hi \div 2, ((p.hi % 2) * (Base \div 2)) + (p.lo \div 2))

Inc(p) == IF p.lo + 1 = Base THEN Pair(p.hi + 1, 0) ELSE Pair(p.hi, p.lo + 1)

\* float(n) of an int 0 < n < 2^27, which is exact
RECURSIVE Normalize(_, _)
Normalize(hi, e) ==
    IF hi >= Base THEN [hi |-> hi, lo |-> 0, e |-> e]
    ELSE Normalize(2 * hi, e - 1)

IntToFloat(n) == Normalize(n, -26)

\* Long division of the mantissa r by the mantissa y: one quotient bit per
\* step, until the quotient q has 54 bits (53 and the rounding bit); n counts
\* the steps.
RECURSIVE DivSteps(_, _, _, _)
DivSteps(r, q, n, y) ==
    IF q.hi >= 2 * Base THEN [q |-> q, r |-> r, n |-> n]
    ELSE IF Geq(r, y)
      THEN DivSteps(Shift(Sub(r, y), 0), Shift(q, 1), n + 1, y)
      ELSE DivSteps(Shift(r, 0), Shift(q, 0), n + 1, y)

\* x / y, rounded to the nearest double, ties to even
FloatDiv(x, y) ==
    LET d == DivSteps(Pair(x.hi, x.lo), Pair(0, 0), 0, Pair(y.hi, y.lo))
        m == Half(d.q)
        up == /\ d.q.lo % 2 = 1
              /\ (d.r # Pair(0, 0) \/ m.lo % 2 = 1)
        r == IF up THEN Inc(m) ELSE m
        e == x.e - y.e - d.n + 2
    IN  IF r.hi >= 2 * Base
          THEN [hi |-> Base, lo |-> 0, e |-> e + 1]
          ELSE [hi |-> r.hi, lo |-> r.lo, e |-> e]

\* math.floor(x) of a positive float
FloatFloor(x) ==
    IF -x.e > 52 THEN 0
    ELSE IF -x.e >= 26 THEN x.hi \div 2^(-x.e - 26)
    ELSE IF x.e <= 0 THEN (x.hi * 2^(26 + x.e)) + (x.lo \div 2^(-x.e))
    ELSE ((x.hi * Base) + x.lo) * 2^x.e

\* whether the positive float x is an integer
FloatIsInt(x) ==
    IF -x.e > 52 THEN FALSE
    ELSE IF -x.e >= 26 THEN x.lo = 0 /\ x.hi % 2^(-x.e - 26) = 0
    ELSE IF x.e <= 0 THEN x.lo % 2^(-x.e) = 0
    ELSE TRUE

\* a / b of two ints, b # 0: Python's true division is correctly rounded,
\* and the sign is kept apart from the magnitude
Abs(n) == IF n < 0 THEN -n ELSE n
Sign(n) == IF n < 0 THEN -1 ELSE 1
TrueDiv(a, b) ==
    [neg |-> Sign(a) * Sign(b) < 0,
     abs |-> FloatDiv(IntToFloat(Abs(a)), IntToFloat(Abs(b)))]

\* a / x of an int and a float
IntByFloat(a, x) ==
    [neg |-> (Sign(a) < 0) # x.neg,
     abs |-> FloatDiv(IntToFloat(Abs(a)), x.abs)]

\* math.floor(x)
MathFloor(x) ==
    IF ~x.neg THEN FloatFloor(x.abs)
    ELSE IF FloatIsInt(x.abs) THEN -FloatFloor(x.abs)
    ELSE -(FloatFloor(x.abs) + 1)

(***************************************************************************)
(* _resize.                                                                *)
(***************************************************************************)
\* math.floor(img.height / (img.width / target_width)), target_width # 0
TargetHeight(width, height, tw) ==
    MathFloor(IntByFloat(height, TrueDiv(width, tw)))

\* thumbnail_image's own default for size: scale up as well as down
ThumbnailSizeBoth == "both"

\* the size and crop arguments _resize passes to thumbnail_image
ThumbnailSize == "down"
ThumbnailCrop == TRUE

Min(a, b) == IF a <= b THEN a ELSE b
Max(a, b) == IF a >= b THEN a ELSE b

\* The images libvips' thumbnail_image(tw, height=th, size=, crop=) may return
\* for a w x h image, tw >= 1 and th >= 1.  Both axes are shrunk by the same
\* factor num / den: with crop the smaller of w / tw and h / th, so that the
\* box is filled, otherwise the larger; size "down" keeps the factor at 1 or
\* above, size "up" at 1 or below, and no axis is shrunk below one pixel.  The
\* rounding of the scaled axes is left open.  With crop the result is then
\* cut to the box.
ThumbnailImage(w, h, tw, th, size, crop) ==
    LET horizontal == IF crop THEN w * th < h * tw ELSE w * th >= h * tw
        n == IF horizontal THEN w ELSE h
        d == IF horizontal THEN tw ELSE th
        keep == (size = "down" /\ n < d) \/ (size = "up" /\ n > d)
        num == IF keep THEN 1 ELSE n
        den == IF keep THEN 1 ELSE d
        Scaled(x) == {Max(1, (x * den) \div num),
                      Max(1, (x * den + num - 1) \div num)}
    IN  {[width |-> IF crop THEN Min(tw, rw) ELSE rw,
          height |-> IF crop THEN Min(th, rh) ELSE rh] :
            rw \in Scaled(w), rh \in Scaled(h)}

\* target_height = math.floor(img.height / (img.width / target_width));
\* a target width of 0 raises ZeroDivisionError
ComputeTargetHeight ==
    /\ rpc = "_resize"
    /\ IF target_width = 0
         THEN target_height' = target_height /\ rpc' = "raised"
         ELSE /\ target_height' =
                   TargetHeight(img.width, img.height, target_width)
              /\ rpc' = "thumbnail_image"
    /\ UNCHANGED <<img, target_width, thumbnail, resized, compress_vars,
                   pipeline_vars,
                   tags_vars, image_vars>>

\* return img.thumbnail_image(target_width, height=target_height,
\*     size="down", no_rotate=True, crop=True, linear=True)
\* libvips wants a width of at least 1; a height below 1 is rejected or
\* taken as not given, in which case the height of the box is its width.
CallThumbnailImage ==
    /\ rpc = "thumbnail_image"
    /\ thumbnail' = <<[width |-> target_width, height |-> target_height,
                       size |-> ThumbnailSize, crop |-> ThumbnailCrop]>>
    /\ \/ /\ target_width < 1 \/ target_height < 1
          /\ resized' = None
          /\ rpc' = "raised"
       \/ /\ target_width >= 1
          /\ \E r \in ThumbnailImage(img.width, img.height, target_width,
                                     IF target_height < 1 THEN target_width
                                     ELSE target_height,
                                     ThumbnailSize, ThumbnailCrop) :
               resized' = <<r>>
          /\ rpc' = "returned"
    /\ UNCHANGED <<img, target_width, target_height, compress_vars,
                   pipeline_vars,
                   tags_vars, image_vars>>

TargetWidths == -1..(MaxDim + 1)

ResizeInit ==
    /\ img \in [width : 1..MaxDim, height : 1..MaxDim, loader : Loaders]
    /\ target_width \in TargetWidths
    /\ target_height = 0
    /\ thumbnail = None
    /\ resized = None
    /\ rpc = "_resize"

CompressIdle ==
    /\ args = DefaultArgs
    /\ target_format = TFORMAT_PNG
    /\ ssim \in Encoders(TFORMAT_PNG)
    /\ compression_factor = 0
    /\ lossless = None
    /\ mssim = 0
    /\ calls = <<>>
    /\ first = None
    /\ runs = 0
    /\ pc = "idle"

InitResize ==
    ResizeInit /\ CompressIdle /\ PipelineIdle /\ TagsIdle /\ ImagesIdle

NextResize ==
    \/ ComputeTargetHeight
    \/ CallThumbnailImage

SpecResize == InitResize /\ [][NextResize]_vars

(***************************************************************************)
(* pathlib.  A file name is the sequence of its characters, "." being the  *)
(* dot; a format is one character.  The destination directory is the same  *)
(* for every file of a run, so that a path is given by its file name.      *)
(***************************************************************************)
\* the position of the dot that starts PurePath.suffix: the last dot of the
\* name, unless it is the first or the last character; 0 without a suffix
RECURSIVE LastDot(_, _)
LastDot(name, i) ==
    IF i <= 1 THEN 0
    ELSE IF name[i] = "." THEN (IF i < Len(name) THEN i ELSE 0)
    ELSE LastDot(name, i - 1)

\* PurePath(name).stem
PathStem(name) ==
    IF LastDot(name, Len(name)) = 0 THEN name
    ELSE SubSeq(name, 1, LastDot(name, Len(name)) - 1)

\* PurePath(name).with_suffix(".{}".format(target)): a suffix the name has
\* is replaced, otherwise the suffix is appended
WithSuffix(name, target) == PathStem(name) \o <<".", target>>

\* override_stem without the name of the variant
OverrideStemOfSource(original, name) == original

\* "{}-{}".format(stem, tsize[0])
OverrideStem(original, name) == original \o <<"-">> \o name

(***************************************************************************)
(* main, cmd_compress and cmd_responsive.  A unit is one call of           *)
(* _compress: one format of the source, or of one resized variant.         *)
(***************************************************************************)
\* a loop over args.formats that leaves out every other format
NextFormatSkipping(i) == i + 2

\* for tformat in args.formats: the next format
NextFormat(i) == i + 1

\* the unit at hand: the position of its variant in args.sizes (0 in compress
\* mode) and the position of its format in args.formats
Unit == [size |-> si, format |-> fi]

Event(e, u) == [ev |-> e, unit |-> u]

\* img = pyvips.Image.new_from_file(args.source), which raises if the file
\* cannot be read; cmd_responsive takes the stem of the file name
OpenSource ==
    /\ ppc = "main"
    /\ \/ /\ ppc' = "raised"
          /\ UNCHANGED <<stem, si, fi>>
       \/ /\ command = "compress"
          /\ fi' = 1
          /\ ppc' = "formats"
          /\ UNCHANGED <<stem, si>>
       \/ /\ command = "responsive"
          /\ stem' = PathStem(source)
          /\ si' = 1
          /\ ppc' = "sizes"
          /\ UNCHANGED fi
    /\ UNCHANGED <<img, compress_vars, resize_vars, command,
                   destination, source, formats,
                   sizes, override_stem, dest, output, disk, events, printed,
                   reported, exit_status,
                   tags_vars, image_vars>>

\* for tsize in args.sizes: resized = _resize(img, int(tsize[1]));
\* iterating over None (no --size given) raises TypeError
NextSize ==
    /\ ppc = "sizes"
    /\ IF sizes = None
         THEN /\ ppc' = "raised"
              /\ UNCHANGED <<resize_vars, events>>
         ELSE IF si > Len(sizes)
           THEN /\ ppc' = "return"
                /\ UNCHANGED <<resize_vars, events>>
           ELSE /\ target_width' = sizes[si][2]
                /\ target_height' = 0
                /\ thumbnail' = None
                /\ resized' = None
                /\ rpc' = "_resize"
                /\ events' = Append(events, Event("_resize", [size |-> si,
                                                             format |-> 0]))
                /\ ppc' = "_resize"
    /\ UNCHANGED <<img, compress_vars, command,
                   destination, source, formats, sizes, stem,
                   si, fi, override_stem, dest, output, disk, printed,
                   reported, exit_status,
                   tags_vars, image_vars>>

\* a loop that binds the resized image to img, so that the next variant is
\* made from the variant before it
ResizedInPlace ==
    /\ ppc = "_resize"
    /\ rpc \in {"returned", "raised"}
    /\ IF rpc = "raised"
         THEN /\ events' = Append(events, Event("raised", [size |-> si,
                                                            format |-> 0]))
              /\ ppc' = "raised"
              /\ UNCHANGED <<override_stem, fi, img>>
         ELSE /\ override_stem' = <<OverrideStem(stem, sizes[si][1])>>
              /\ fi' = 1
              /\ ppc' = "formats"
              /\ img' = [img EXCEPT !.width = resized[1].width,
                                    !.height = resized[1].height]
              /\ UNCHANGED events
    /\ rpc' = "idle"
    /\ UNCHANGED <<compress_vars, target_width, target_height,
                   thumbnail, resized, command,
                   destination, source, formats, sizes, stem,
                   si, dest, output, disk, printed, reported, exit_status,
                   tags_vars, image_vars>>

\* _resize has returned: override_stem = "{}-{}".format(stem, tsize[0]) and
\* the loop over the formats begins; an exception out of _resize is not caught
Resized ==
    /\ ppc = "_resize"
    /\ rpc \in {"returned", "raised"}
    /\ IF rpc = "raised"
         THEN /\ events' = Append(events, Event("raised", [size |-> si,
                                                            format |-> 0]))
              /\ ppc' = "raised"
              /\ UNCHANGED <<override_stem, fi>>
         ELSE /\ override_stem' = <<OverrideStem(stem, sizes[si][1])>>
              /\ fi' = 1
              /\ ppc' = "formats"
              /\ UNCHANGED events
    /\ rpc' = "idle"
    /\ UNCHANGED <<img, compress_vars, target_width, target_height,
                   thumbnail, resized, command,
                   destination, source, formats, sizes, stem,
                   si, dest, output, disk, printed, reported, exit_status,
                   tags_vars, image_vars>>

\* for tformat in args.formats: output.append(_compress(...)).  _compress
\* computes dest and calls the function of the format; for a format it
\* does not know it logs an error and returns None, which is appended.
\* When the formats are used up, cmd_compress returns and cmd_responsive
\* goes on to the next size.
CompressUnit ==
    /\ ppc = "formats"
    /\ IF fi > Len(formats)
         THEN /\ IF command = "compress"
                   THEN ppc' = "return" /\ si' = si
                   ELSE ppc' = "sizes" /\ si' = si + 1
              /\ UNCHANGED <<fi, dest, output, events>>
         ELSE /\ dest' = <<WithSuffix(IF override_stem = None
                                        THEN PathStem(source)
                                        ELSE override_stem[1],
                                      formats[fi])>>
              /\ events' = Append(events,
                     [ev |-> "_compress", unit |-> Unit,
                      img |-> IF command = "compress" THEN <<>> ELSE resized])
              /\ IF formats[fi] \in Formats
                   THEN ppc' = "encode" /\ UNCHANGED <<fi, output>>
                   ELSE /\ output' = Append(output, None)
                        /\ fi' = NextFormat(fi)
                        /\ ppc' = "formats"
              /\ si' = si
    /\ UNCHANGED <<img, compress_vars, resize_vars, command,
                   destination, source, formats,
                   sizes, stem, override_stem, disk, printed, reported,
                   exit_status,
                   tags_vars, image_vars>>

\* an encoder that creates the directories of the file it writes
CanWriteAnywhere(directory) == TRUE

\* <format>save(dest, ...) creates the file, replacing a file of that name,
\* but no directory: it raises if the directory of dest does not exist
CanWrite(directory) == directory = "dir"

\* _compress_<format>(img, dest, ...): the file is written and dest is
\* returned and appended to output, or the encoder raises, which nothing
\* catches
EncodeUnit ==
    /\ ppc = "encode"
    /\ \/ /\ CanWrite(destination)
          /\ disk' = Append(disk, dest[1])
          /\ output' = Append(output, dest[1])
          /\ events' = Append(events, Event("written", Unit))
          /\ fi' = NextFormat(fi)
          /\ ppc' = "formats"
       \/ /\ events' = Append(events, Event("raised", Unit))
          /\ ppc' = "raised"
          /\ UNCHANGED <<disk, output, fi>>
    /\ UNCHANGED <<img, compress_vars, resize_vars, command,
                   destination, source, formats,
                   sizes, stem, si, override_stem, dest, printed, reported,
                   exit_status,
                   tags_vars, image_vars>>

\* main: print("The following files were generated:") and one line per
\* element of output
PrintOutput ==
    /\ ppc = "return"
    /\ printed' = output
    /\ exit_status' = <<0>>
    /\ ppc' = "exit"
    /\ UNCHANGED <<img, compress_vars, resize_vars, command,
                   destination, source, formats,
                   sizes, stem, si, fi, override_stem, dest, output, disk,
                   events, reported,
                   tags_vars, image_vars>>

\* an exception that leaves main ends the process with a traceback and the
\* exit status 1
Uncaught ==
    /\ ppc = "raised"
    /\ exit_status' = <<1>>
    /\ ppc' = "exit"
    /\ UNCHANGED <<img, compress_vars, resize_vars, command,
                   destination, source, formats,
                   sizes, stem, si, fi, override_stem, dest, output, disk,
                   events, printed, reported,
                   tags_vars, image_vars>>

\* the sequences over S of the lengths 1..n
RECURSIVE SeqsUpTo(_, _)
SeqsUpTo(S, n) ==
    IF n = 0 THEN {}
    ELSE SeqsUpTo(S, n - 1) \cup [1..n -> S]

\* a format _compress does not know
UnknownFormat == "gif"

\* file name stems and names of variants, without and with a dot
SourceStems == {<<"p">>, <<"p", ".", "t">>}
VariantNames == {<<"s">>, <<"l">>, <<"s", ".", "x">>}
VariantWidths == {0, MaxDim - 2}

\* the image new_from_file makes of the source
SourceImage == [width |-> MaxDim, height |-> MaxDim, loader |-> "jpegload"]

PipelineInit ==
    /\ command \in {"compress", "responsive"}
    /\ destination \in {"dir", "missing"}
    /\ source \in {st \o <<".", TFORMAT_JPG>> : st \in SourceStems}
    /\ formats \in {<<>>} \cup
                   SeqsUpTo(Formats \cup {UnknownFormat}, MaxFormats)
    /\ IF command = "compress" THEN sizes = None
       ELSE sizes \in {None} \cup
                      SeqsUpTo(VariantNames \X VariantWidths, MaxSizes)
    /\ img = SourceImage
    /\ stem = None
    /\ si = 0
    /\ fi = 0
    /\ override_stem = None
    /\ dest = None
    /\ output = <<>>
    /\ disk = <<>>
    /\ events = <<>>
    /\ printed = <<>>
    /\ reported = {}
    /\ exit_status = None
    /\ ppc = "main"

InitPipeline ==
    PipelineInit /\ CompressIdle /\ ResizeIdle /\ TagsIdle /\ ImagesIdle

NextPipeline ==
    \/ OpenSource
    \/ NextSize
    \/ ComputeTargetHeight
    \/ CallThumbnailImage
    \/ Resized
    \/ CompressUnit
    \/ EncodeUnit
    \/ PrintOutput
    \/ Uncaught

SpecPipeline == InitPipeline /\ [][NextPipeline]_vars

(***************************************************************************)
(* content_tags.  A tag, a docname and a title are strings; a tag is the   *)
(* sequence of its characters.  The set _docs of a tag is the bag of its   *)
(* entries: an entry is a CTDoc together with the key it was filed under   *)
(* when it was added, since set_doc_titles changes the title, and with it  *)
(* the hash, of documents that are in the set.                             *)
(***************************************************************************)
Docnames == {"d1", "d2"}

\* env.titles: the title node of every document
Titles == [d \in Docnames |-> [text |-> "T"]]

\* titles[docname].astext()
AsText(node) == node.text

\* app.config.ct_tag_overview_url and app.config.ct_tag_page_url_template
OverviewUrl == <<"tags">>
PageUrlTemplate == <<"tags/", "{}">>

\* pagename_template.format(name)
RECURSIVE Format(_, _)
Format(template, name) ==
    IF template = <<>> THEN <<>>
    ELSE (IF Head(template) = "{}" THEN name ELSE <<Head(template)>>)
           \o Format(Tail(template), name)

\* str.split(";")
RECURSIVE Split(_)
Split(str) ==
    IF \A i \in DOMAIN str : str[i] # ";" THEN <<str>>
    ELSE LET i == CHOOSE i \in DOMAIN str :
                    str[i] = ";" /\ \A j \in 1..(i - 1) : str[j] # ";"
         IN  <<SubSeq(str, 1, i - 1)>> \o Split(SubSeq(str, i + 1, Len(str)))

\* str.strip()
RECURSIVE Strip(_)
Strip(str) ==
    IF str = <<>> THEN str
    ELSE IF Head(str) = " " THEN Strip(Tail(str))
    ELSE IF str[Len(str)] = " " THEN Strip(SubSeq(str, 1, Len(str) - 1))
    ELSE str

\* str.lower()
Lower(str) ==
    [i \in DOMAIN str |-> CASE str[i] = "A" -> "a"
                            [] str[i] = "B" -> "b"
                            [] OTHER -> str[i]]

\* CTDoc(docname, doctitle) as the set files it: under its key at that time
CTDoc(docname, doctitle) ==
    [docname |-> docname, title |-> doctitle, filed |-> doctitle]

\* CTTag.__init__
CTTag(name) ==
    [name |-> Lower(Strip(name)), pagename |-> None, docs |-> EmptyBag]

\* set.add and the insertion of set.update: the set holds the element already
\* if an entry filed under the same key equals it, which makes the two the
\* same entry
SetAdd(docs, doc) ==
    IF BagIn(doc, docs) THEN docs ELSE docs (+) SetToBag({doc})

\* CTTag.add_doc
AddDoc(tag, docname, doctitle, pagename_template) ==
    [tag EXCEPT !.pagename = IF @ = None
                               THEN <<Format(pagename_template, tag.name)>>
                               ELSE @,
                !.docs = SetAdd(@, CTDoc(docname, doctitle))]

\* a removal of the document as the directive has added it: set.discard of
\* CTDoc(docname, "")
RmDocAsAdded(tag, docname) ==
    [tag EXCEPT !.docs =
        [e \in BagToSet(@) \ {CTDoc(docname, "")} |-> @[e]]]

\* CTTag.rm_doc: a new set of the documents of the other docnames, each
\* filed under the key it has now
RmDoc(tag, docname) ==
    [tag EXCEPT !.docs =
        SetToBag({CTDoc(e.docname, e.title) :
                    e \in {x \in BagToSet(@) : x.docname # docname}})]

\* CTTag.set_doc_titles: the title of every document is assigned, the
\* document stays filed where it is
SetDocTitles(tag, titles) ==
    [tag EXCEPT !.docs =
        BagOfAll(LAMBDA e : [e EXCEPT !.title = AsText(titles[e.docname])],
                 @)]

\* a merge that takes over the documents of the other tag
MergeReplacing(tag, other) == [tag EXCEPT !.docs = other.docs]

\* CTTag.merge: self._docs.update(other._docs)
Merge(tag, other) ==
    [tag EXCEPT !.docs = @ (+) SetToBag(BagToSet(other.docs) \ BagToSet(@))]

\* CTTag.contains
Contains(tag, docname) == \E e \in BagToSet(tag.docs) : e.docname = docname

\* TagDefaultDict(CTTag), and TagDefaultDict[key] with __missing__
TagDefaultDict == <<>>
GetItem(dict, key) == IF key \in DOMAIN dict THEN dict[key] ELSE CTTag(key)

\* getattr(env, ENV_TAG_KEY, {})
GetTags(env) == IF ct_tags[env] = None THEN <<>> ELSE ct_tags[env][1]

\* ContentTagDirective.run: the set of the tags of the argument
TagList(argument) ==
    {Lower(t) : t \in {Strip(Split(argument)[i]) :
                         i \in DOMAIN Split(argument)} \ {<<>>}}

\* the arguments of the directive: "a", " A;b" and "b ;"
Arguments == {<<"a">>, <<" ", "A", ";", "b">>, <<"b", " ", ";">>}

\* the record of the handler called, with the tags as they were before
Called(op, env, docname) ==
    [op |-> op, env |-> env, docname |-> docname, before |-> ct_tags]

\* the environments there are: the one of the build and, during a parallel
\* build, that of a sub-process
Environments == {"env"} \cup (IF opc = "reading" THEN {"other"} ELSE {})

\* ContentTagDirective.run
Run(dict, docname, argument) ==
    [tag \in DOMAIN dict \cup TagList(argument) |->
        IF tag \in TagList(argument)
          THEN AddDoc(GetItem(dict, tag), docname, "", PageUrlTemplate)
          ELSE dict[tag]]

\* the loop of purge_document_from_tags
PurgeDocument(dict, docname) ==
    [tag \in DOMAIN dict |-> RmDoc(dict[tag], docname)]

\* the loop of update_doc_titles
UpdateDocTitles(dict, titles) ==
    [tag \in DOMAIN dict |-> SetDocTitles(dict[tag], titles)]

\* the loop of merge_tags
MergeTags(dict, other) ==
    [tag \in DOMAIN dict \cup DOMAIN other |->
        IF tag \in DOMAIN other
          THEN Merge(GetItem(dict, tag), other[tag])
          ELSE dict[tag]]

\* add_tag_pages: the overview and one page for every key of the dictionary
AddTagPages(dict) ==
    {[pagename |-> <<OverviewUrl>>, tag |-> None,
      template |-> "tag_index.html"]}
    \cup {[pagename |-> dict[tag].pagename, tag |-> <<tag>>,
           template |-> "tag.html"] : tag \in DOMAIN dict}

\* the directive tags in a document that is read
RunDirective ==
    /\ opc # "off"
    /\ steps < MaxSteps
    /\ \E e \in Environments, docname \in Docnames, argument \in Arguments :
         /\ ct_tags' = [ct_tags EXCEPT ![e] =
                          <<Run(GetTags(e), docname, argument)>>]
         /\ last' = <<Called("run", e, docname)>>
    /\ steps' = steps + 1
    /\ UNCHANGED <<tag_pages, opc>>
    /\ UNCHANGED <<img, compress_vars, resize_vars, pipeline_vars,
                   image_vars>>

\* env-purge-doc: purge_document_from_tags
PurgeDocumentFromTags ==
    /\ opc # "off"
    /\ steps < MaxSteps
    /\ \E e \in Environments, docname \in Docnames :
         /\ ct_tags' = [ct_tags EXCEPT ![e] =
                          IF @ = None THEN @
                          ELSE <<PurgeDocument(@[1], docname)>>]
         /\ last' = <<Called("purge", e, docname)>>
    /\ steps' = steps + 1
    /\ UNCHANGED <<tag_pages, opc>>
    /\ UNCHANGED <<img, compress_vars, resize_vars, pipeline_vars,
                   image_vars>>

\* env-updated: update_doc_titles
UpdateTitles ==
    /\ opc # "off"
    /\ steps < MaxSteps
    /\ ct_tags' = [ct_tags EXCEPT !["env"] =
                     IF @ = None THEN @
                     ELSE <<UpdateDocTitles(@[1], Titles)>>]
    /\ last' = <<Called("update", "env", "")>>
    /\ steps' = steps + 1
    /\ UNCHANGED <<tag_pages, opc>>
    /\ UNCHANGED <<img, compress_vars, resize_vars, pipeline_vars,
                   image_vars>>

\* a parallel build (parallel_read_safe): a sub-process starts with a copy
\* of the environment
Fork ==
    /\ opc \in {"serial", "merged"}
    /\ steps < MaxSteps
    /\ ct_tags' = [ct_tags EXCEPT !["other"] = ct_tags["env"]]
    /\ last' = <<Called("fork", "env", "")>>
    /\ opc' = "reading"
    /\ steps' = steps + 1
    /\ UNCHANGED tag_pages
    /\ UNCHANGED <<img, compress_vars, resize_vars, pipeline_vars,
                   image_vars>>

\* env-merge-info: merge_tags; a mismatch of the names of two tags raises
MergeInfo ==
    /\ opc = "reading"
    /\ steps < MaxSteps
    /\ IF \E tag \in DOMAIN GetTags("other") :
             GetItem(GetTags("env"), tag).name # GetTags("other")[tag].name
         THEN /\ last' = <<Called("merge raised", "env", "")>>
              /\ UNCHANGED ct_tags
         ELSE /\ ct_tags' = [ct_tags EXCEPT !["env"] =
                 IF ct_tags["other"] = None
                   THEN <<GetTags("env")>>
                   ELSE <<MergeTags(GetTags("env"), GetTags("other"))>>]
              /\ last' = <<Called("merge", "env", "")>>
    /\ opc' = "merged"
    /\ steps' = steps + 1
    /\ UNCHANGED tag_pages
    /\ UNCHANGED <<img, compress_vars, resize_vars, pipeline_vars,
                   image_vars>>

\* html-collect-pages: add_tag_pages
CollectPages ==
    /\ opc # "off"
    /\ steps < MaxSteps
    /\ tag_pages' = <<AddTagPages(GetTags("env"))>>
    /\ last' = <<Called("pages", "env", "")>>
    /\ steps' = steps + 1
    /\ UNCHANGED <<ct_tags, opc>>
    /\ UNCHANGED <<img, compress_vars, resize_vars, pipeline_vars,
                   image_vars>>

TagsInit ==
    /\ ct_tags = [e \in {"env", "other"} |-> None]
    /\ tag_pages = None
    /\ last = None
    /\ opc = "serial"
    /\ steps = 0

InitTags ==
    /\ TagsInit /\ CompressIdle /\ ResizeIdle /\ PipelineIdle /\ ImagesIdle
    /\ img = SourceImage

NextTags ==
    \/ RunDirective
    \/ PurgeDocumentFromTags
    \/ UpdateTitles
    \/ Fork
    \/ MergeInfo
    \/ CollectPages

SpecTags == InitTags /\ [][NextTags]_vars

(***************************************************************************)
(* responsive_images.  One image node: the files of its responsive        *)
(* versions are named by the suffix of their size and their extension.     *)
(***************************************************************************)
EXT_TO_MIME ==
    [ext \in {".jpg", ".jpeg", ".png", ".webp", ".avif"} |->
        CASE ext \in {".jpg", ".jpeg"} -> "image/jpeg"
          [] ext = ".png" -> "image/png"
          [] ext = ".webp" -> "image/webp"
          [] ext = ".avif" -> "image/avif"]

\* the configuration values responsive_images_formats,
\* responsive_images_size_suffixes (two of the six) and
\* responsive_images_layout_breakpoints
ResponsiveImagesFormats ==
    {<<".avif", 1>>, <<".webp", 2>>, <<".jpg", 99>>, <<".png", 98>>}
ResponsiveImagesSizeSuffixes == <<"-small", "-big">>
ResponsiveImagesLayoutBreakpoints == {<<777, 444>>, <<500, 222>>}

\* _get_sorted_format_list
RECURSIVE GetSortedFormatList(_, _)
GetSortedFormatList(format_list, reverse) ==
    IF format_list = {} THEN <<>>
    ELSE LET f == CHOOSE x \in format_list : \A y \in format_list :
                      IF reverse THEN x[2] >= y[2] ELSE x[2] <= y[2]
         IN  <<f[1]>> \o GetSortedFormatList(format_list \ {f}, reverse)

\* bpoints = [(0, 0)] + breakpoints; bpoints.sort(reverse=True)
RECURSIVE SortReverse(_)
SortReverse(bpoints) ==
    IF bpoints = {} THEN <<>>
    ELSE LET b == CHOOSE x \in bpoints : \A y \in bpoints : x[1] >= y[1]
         IN  <<b>> \o SortReverse(bpoints \ {b})

\* _get_image_size: what imagesize makes of the file of a size; it does not
\* read avif
GetImageSize(file) ==
    IF file.ext = ".avif" THEN None
    ELSE IF file.size = "-small" THEN <<[width |-> 300, height |-> 200]>>
    ELSE <<[width |-> 600, height |-> 400]>>

\* ResponsiveImageSourceFile
SourceFile(file, dim) ==
    [img_path |-> file, width |-> dim.width, height |-> dim.height,
     mime |-> EXT_TO_MIME[file.ext]]

\* the body of the loops of collect_sources for one size and one format: a
\* file that does not exist is skipped; a file whose dimensions cannot be
\* read gets those of the file of its size with the suffix of the
\* reference, if that one is among the sources already, and is skipped
\* otherwise
CollectSource(sources, reference, file) ==
    IF file \notin files THEN sources
    ELSE IF GetImageSize(file) # None
      THEN sources \cup {SourceFile(file, GetImageSize(file)[1])}
    ELSE LET fallback == {item \in sources :
                            item.img_path = [file EXCEPT !.ext = reference]}
         IN  IF fallback = {} THEN sources
             ELSE sources \cup {SourceFile(file, CHOOSE item \in fallback :
                                                   TRUE)}

\* ResponsiveImageCollector.collect_sources: the k-th pass through the body
\* of the loops over the sizes and, within a size, the formats
RECURSIVE CollectSources(_, _, _, _, _)
CollectSources(sources, reference, size_suffixes, format_list, k) ==
    IF k > Len(size_suffixes) * Len(format_list) THEN sources
    ELSE CollectSources(
           CollectSource(
             sources, reference,
             [size |-> size_suffixes[((k - 1) \div Len(format_list)) + 1],
              ext |-> format_list[((k - 1) % Len(format_list)) + 1]]),
           reference, size_suffixes, format_list, k + 1)

\* source_files.sort(key=lambda src: src.width)
RECURSIVE SortByWidth(_)
SortByWidth(source_files) ==
    IF source_files = {} THEN <<>>
    ELSE LET src == CHOOSE x \in source_files :
                        \A y \in source_files : x.width <= y.width
         IN  <<src>> \o SortByWidth(source_files \ {src})

\* ResponsiveImageSources.get_source_files: the list, or None if the
\* lookup of the MIME type raises KeyError, which it does for the first
\* source that is wide enough
GetSourceFiles(sources, fileformat, min_width) ==
    IF /\ fileformat \notin DOMAIN EXT_TO_MIME
       /\ \E item \in sources : item.width >= min_width
      THEN None
    ELSE <<SortByWidth({item \in sources :
                          /\ item.width >= min_width
                          /\ item.mime = EXT_TO_MIME[fileformat]})>>

\* the <source> elements: one for a breakpoint and a format, in the order of
\* the loops, if there are files
RECURSIVE SourceElements(_, _, _, _)
SourceElements(sources, bpoints, format_list, k) ==
    IF k > Len(bpoints) * Len(format_list) THEN <<>>
    ELSE LET b == bpoints[((k - 1) \div Len(format_list)) + 1]
             f == format_list[((k - 1) % Len(format_list)) + 1]
             tmp_sources == GetSourceFiles(sources, f, b[2])[1]
             element ==
                 IF tmp_sources = <<>> THEN <<>>
                 ELSE <<[tag |-> "source",
                         srcset |-> [i \in DOMAIN tmp_sources |->
                                       <<tmp_sources[i].img_path,
                                         tmp_sources[i].width>>],
                         media |-> b[1],
                         height |-> tmp_sources[1].height,
                         width |-> tmp_sources[1].width,
                         type |-> tmp_sources[1].mime]>>
         IN  element \o SourceElements(sources, bpoints, format_list, k + 1)

\* the <img> element of the fallback
ImgElement(fallback) ==
    [tag |-> "img", src |-> fallback.img_path, width |-> fallback.width,
     height |-> fallback.height]

\* ResponsiveImageCollector.process_doc for the image node: the sources
\* are collected and attached to the node, an empty collection included
ProcessDoc ==
    /\ ipc = "read"
    /\ responsive_sources' =
         <<CollectSources({}, uri, ResponsiveImagesSizeSuffixes,
                          GetSortedFormatList(ResponsiveImagesFormats,
                                              TRUE), 1)>>
    /\ ipc' = "visit"
    /\ UNCHANGED <<uri, files, body>>
    /\ UNCHANGED <<img, compress_vars, resize_vars, pipeline_vars, tags_vars>>

\* visit_image up to the <source> elements: without sources the original
\* visit_image of the translator is called
VisitImage ==
    /\ ipc = "visit"
    /\ IF Cardinality(responsive_sources[1]) < 1
         THEN /\ body' = <<[tag |-> "original_visit_image"]>>
              /\ ipc' = "returned"
         ELSE /\ body' = <<[tag |-> "picture"]>>
                   \o SourceElements(
                        responsive_sources[1],
                        SortReverse({<<0, 0>>}
                                    \cup ResponsiveImagesLayoutBreakpoints),
                        GetSortedFormatList(ResponsiveImagesFormats, FALSE),
                        1)
              /\ ipc' = "fallback"
    /\ UNCHANGED <<uri, files, responsive_sources>>
    /\ UNCHANGED <<img, compress_vars, resize_vars, pipeline_vars, tags_vars>>

\* visit_image from get_fallback on: get_source_files(fileformat)[0] raises
\* KeyError for a suffix without a MIME type and IndexError if no source has
\* the format of the reference; else <img> and </picture> are appended
VisitImageFallback ==
    /\ ipc = "fallback"
    /\ LET source_files == GetSourceFiles(responsive_sources[1], uri, 0)
       IN  IF source_files = None
             THEN /\ ipc' = "KeyError"
                  /\ UNCHANGED body
           ELSE IF source_files[1] = <<>>
             THEN /\ ipc' = "IndexError"
                  /\ UNCHANGED body
           ELSE /\ body' = body \o <<ImgElement(source_files[1][1]),
                                     [tag |-> "/picture"]>>
                /\ ipc' = "returned"
    /\ UNCHANGED <<uri, files, responsive_sources>>
    /\ UNCHANGED <<img, compress_vars, resize_vars, pipeline_vars, tags_vars>>

\* an image with the suffix of its file and the files that exist next to it
InitImages ==
    /\ uri \in {".jpg", ".png", ".gif"}
    /\ files \in SUBSET [size : {"-small", "-big"},
                         ext : {".jpg", ".png", ".webp", ".avif"}]
    /\ responsive_sources = None
    /\ body = <<>>
    /\ ipc = "read"
    /\ CompressIdle /\ ResizeIdle /\ PipelineIdle /\ TagsIdle
    /\ img = SourceImage

NextImages == ProcessDoc \/ VisitImage \/ VisitImageFallback

SpecImages == InitImages /\ [][NextImages]_vars

(***************************************************************************)
(* Properties of the quality search.                                       *)
(***************************************************************************)
\* the starting factor configured for the target format
Start == ConfiguredFactor(args, target_format)

\* the candidates encoded in memory and the files written, in order
BufferCalls == SelectSeq(calls, LAMBDA c : c.op \in BufferOps)
FileCalls == SelectSeq(calls, LAMBDA c : c.op \in FileOps)

\* a lossy format with a required similarity
Searching == target_format \in Lossy /\ args.required_ssim # None

\* C1: with a required similarity, the first candidate is encoded at the
\* starting factor itself, and if some factor q in Start..100 scores strictly
\* above the required similarity, the file is written with the least such q
\* (a score equal to the required similarity does not stop the search).
C1_FirstAtStartLeastAbove ==
    Searching =>
      /\ calls # <<>> =>
           calls[1].op \in BufferOps /\ calls[1].factor = Start
      /\ \A q \in Start..MaxQuality :
           ( /\ ssim[q] > args.required_ssim[1]
             /\ \A p \in Start..(q - 1) : ssim[p] <= args.required_ssim[1]
             /\ pc = "returned" )
           => FileCalls[1].factor = q

\* C2: with a required similarity of 0.0 the search returns at once: the
\* file is written with exactly the starting factor, nothing is incremented.
C2_ZeroReturnsStart ==
    ( /\ target_format \in Lossy
      /\ args.required_ssim = <<0>>
      /\ pc = "returned" )
    => /\ compression_factor = Start
       /\ FileCalls[1].factor = Start

\* C3: without a required similarity a lossy format is encoded exactly once,
\* to disk, with the starting factor unchanged; no candidate is encoded in
\* memory and none is scored.
C3_NoTargetSingleEncode ==
    (target_format \in Lossy /\ args.required_ssim = None) =>
      /\ BufferCalls = <<>>
      /\ mssim = 0
      /\ Len(calls) <= 1
      /\ calls # <<>> =>
           calls[1].op = FileOp(target_format) /\ calls[1].factor = Start
      /\ pc = "returned" => Len(calls) = 1

C3_Witness ==
    /\ target_format \in Lossy
    /\ args.required_ssim = None
    /\ pc = "returned"
    /\ calls = <<EncoderCall(FileOp(target_format), Start, lossless)>>

\* C4: a search ends when the score exceeds the required similarity or when
\* the factor reaches 100: at factor 100 the loop is left whatever the
\* score, and no error is raised.
C4_LoopEndsAtMaximum ==
    Searching =>
      /\ pc # "raised"
      /\ (pc = "while" /\ compression_factor >= MaxQuality) =>
           ~LoopCondition(mssim, args.required_ssim)

\* C5: every factor handed to an encoder, for a candidate or for the file,
\* lies in the range of the format (0..100, PNG 0..9), and a search never
\* ends above 100.
C5_FactorsInRange ==
    /\ \A i \in DOMAIN calls : ValidFactor(target_format, calls[i].factor)
    /\ pc = "returned" => ValidFactor(target_format, compression_factor)

\* C6: during a search the factor changes in steps of exactly +1: the
\* candidates are encoded at consecutive factors in increasing order, each
\* once, the factor in use is the one of the last candidate, and the file is
\* written with it.
C6_StepsOfOne ==
    LET B == BufferCalls IN
    /\ \A i \in 1..Len(B) : B[i].factor = B[1].factor + (i - 1)
    /\ (B # <<>> /\ pc \in {"while", "save", "returned", "raised"}) =>
         compression_factor = B[Len(B)].factor
    /\ (B # <<>> /\ FileCalls # <<>>) =>
         FileCalls[1].factor = B[Len(B)].factor

C6_Witness ==
    /\ pc = "returned"
    /\ Len(BufferCalls) >= 3
    /\ FileCalls[1].factor = BufferCalls[1].factor + 2

\* C7: for a fixed image, format and required similarity, the final factor
\* is monotone in the starting factor: of two invocations, the one that
\* starts lower does not end higher.
C7_MonotoneInStart ==
    (first # None /\ pc = "returned") =>
      /\ first[1].start <= Start => first[1].final <= compression_factor
      /\ Start <= first[1].start => compression_factor <= first[1].final

C7_Witness ==
    /\ Searching
    /\ first # None
    /\ pc = "returned"
    /\ first[1].start < Start
    /\ first[1].final < compression_factor

\* C8: nothing is written to disk while the search runs; once the loop is
\* left exactly one file is written, with the final factor, after the last
\* candidate, so that a unit makes one encode per iteration plus one, and
\* one write.
C8_OneWriteAfterSearch ==
    /\ Len(FileCalls) <= 1
    /\ pc \in {"_compress", "lossless", "required_ssim", "while", "save"} =>
         FileCalls = <<>>
    /\ FileCalls # <<>> =>
         /\ calls[Len(calls)] = FileCalls[1]
         /\ FileCalls[1].op = FileOp(target_format)
         /\ FileCalls[1].factor = compression_factor
    /\ pc = "returned" =>
         /\ Len(FileCalls) = 1
         /\ Len(calls) = Len(BufferCalls) + 1

C8_Witness ==
    /\ Searching
    /\ pc = "returned"
    /\ Len(BufferCalls) >= 2
    /\ Len(FileCalls) = 1

(***************************************************************************)
(* Properties of the resizer.                                              *)
(***************************************************************************)
\* C9: for a target width tw with 0 < tw < width, the resizer asks for the
\* width tw and for the height that scales by the same ratio, rounded down:
\* the largest integer not above height * tw / width.
C9_HeightIsFloorOfRatio ==
    (thumbnail # None /\ 0 < target_width /\ target_width < img.width) =>
      /\ thumbnail[1].width = target_width
      /\ thumbnail[1].height = (img.height * target_width) \div img.width

\* C10: the image _resize returns is never wider and never higher than the
\* source, whatever the target width.
C10_NeverScalesUp ==
    resized # None =>
      /\ resized[1].width <= img.width
      /\ resized[1].height <= img.height

C10_Witness ==
    /\ rpc = "returned"
    /\ target_width > img.width
    /\ target_height > img.height
    /\ resized = <<[width |-> img.width, height |-> img.height]>>

\* C11: _resize fails, and returns no image, whenever the target width is
\* at least the width of the source or is not positive.
C11_RejectsInvalidWidth ==
    ( /\ rpc \in {"returned", "raised"}
      /\ (target_width >= img.width \/ target_width <= 0) )
    => (rpc = "raised" /\ resized = None)

(***************************************************************************)
(* Properties of the encoders.                                             *)
(***************************************************************************)
\* C12: for WebP and AVIF a lossless flag of None is resolved before the
\* search to FALSE if the source was loaded by jpegload and to TRUE
\* otherwise, a given flag is kept, and every encoder call of the unit, in
\* memory and to disk, is handed the resolved value.
C12_LosslessResolvedOnce ==
    target_format \in {TFORMAT_WEBP, TFORMAT_AVIF} =>
      LET given == IF target_format = TFORMAT_WEBP THEN args.webp_lossless
                   ELSE args.avif_lossless
          resolved == IF given # None THEN given
                      ELSE IF img.loader = "jpegload" THEN <<FALSE>>
                      ELSE <<TRUE>>
      IN  /\ \A i \in DOMAIN calls : calls[i].lossless = resolved
          /\ pc \in {"required_ssim", "while", "save", "returned", "raised"}
               => lossless = resolved

C12_Witness ==
    /\ target_format = TFORMAT_AVIF
    /\ args.avif_lossless = None
    /\ img.loader = "jpegload"
    /\ pc = "returned"
    /\ Len(BufferCalls) >= 2
    /\ \A i \in DOMAIN calls : calls[i].lossless = <<FALSE>>

\* C13: a PNG unit never searches: whatever the required similarity, it
\* makes exactly one encoder call, pngsave with the configured compression
\* level, and no candidate is encoded in memory; the lossy formats do search
\* when a similarity is required.
C13_PngNeverSearches ==
    /\ target_format = TFORMAT_PNG =>
         /\ pc \notin {"lossless", "required_ssim", "while"}
         /\ BufferCalls = <<>>
         /\ Len(calls) <= 1
         /\ calls # <<>> =>
              (calls[1].op = "pngsave" /\ calls[1].factor = args.png_compression)
         /\ pc = "returned" => Len(calls) = 1
    /\ (Searching /\ pc = "returned") => BufferCalls # <<>>

C13_Witness ==
    /\ target_format = TFORMAT_PNG
    /\ args.required_ssim # None
    /\ pc = "returned"
    /\ calls = <<EncoderCall("pngsave", args.png_compression, None)>>

(***************************************************************************)
(* Properties of the runs of cmd_compress and cmd_responsive.              *)
(***************************************************************************)
\* the formats parse_args lets through
KnownFormats == \A i \in DOMAIN formats : formats[i] \in Formats

\* responsive mode needs at least one --size
SizesGiven == command = "responsive" => sizes # None

\* the units of the request: every format, of every variant
RequestedUnits ==
    IF command = "compress"
      THEN {[size |-> 0, format |-> f] : f \in DOMAIN formats}
      ELSE {[size |-> s, format |-> f] : s \in DOMAIN sizes,
                                         f \in DOMAIN formats}

\* the file of the unit has been written
Written(u) == \E k \in DOMAIN events : events[k] = Event("written", u)

\* the encode of the unit has raised, or the resize of its variant has
Failed(u) ==
    \E k \in DOMAIN events :
        /\ events[k].ev = "raised"
        /\ events[k].unit.size = u.size
        /\ events[k].unit.format \in {0, u.format}

FailedUnits == {u \in RequestedUnits : Failed(u)}

WrittenEvents == SelectSeq(events, LAMBDA e : e.ev = "written")
ResizeEvents == SelectSeq(events, LAMBDA e : e.ev = "_resize")
CompressEvents == SelectSeq(events, LAMBDA e : e.ev = "_compress")

HasDot(name) == \E i \in DOMAIN name : name[i] = "."

\* C14: cmd_compress handles the formats in the order given: the calls of
\* _compress and the writes alternate, the k-th pair belonging to the k-th
\* format, so that no encode starts before the write before it has
\* finished; every element of the output ends in the extension of the
\* format at its position, and a run that returns has one element per format.
C14_FormatsInOrder ==
    (command = "compress" /\ KnownFormats) =>
        /\ \A k \in DOMAIN events :
              /\ events[k].unit = [size |-> 0, format |-> (k + 1) \div 2]
              /\ IF k % 2 = 1 THEN events[k].ev = "_compress"
                 ELSE events[k].ev \in {"written", "raised"}
        /\ Len(output) = Len(WrittenEvents)
        /\ \A i \in DOMAIN output :
              /\ i <= Len(formats)
              /\ output[i] # None
              /\ Len(output[i]) > 2
              /\ output[i][Len(output[i])] = formats[i]
              /\ output[i][Len(output[i]) - 1] = "."
        /\ exit_status = <<0>> => Len(output) = Len(formats)

C14_Witness ==
    /\ command = "compress"
    /\ formats = <<TFORMAT_WEBP, TFORMAT_JPG>>
    /\ exit_status = <<0>>
    /\ printed = <<PathStem(PathStem(source)) \o <<".", TFORMAT_WEBP>>,
                   PathStem(PathStem(source)) \o <<".", TFORMAT_JPG>>>>
    /\ Len(events) = 4

\* C15: when a run of known formats has ended after the source was opened,
\* every requested unit that has not failed itself has been written.
C15_FailureDoesNotAbort ==
    (ppc = "exit" /\ KnownFormats /\ SizesGiven /\ events # <<>>) =>
        \A u \in RequestedUnits : Failed(u) \/ Written(u)

\* C16: when a run of known formats has ended after the source was opened,
\* the report names exactly the failed units, nothing but files is listed as
\* generated, and the exit status is non-zero exactly if a unit has failed.
C16_FailuresReported ==
    (ppc = "exit" /\ KnownFormats /\ SizesGiven /\ events # <<>>) =>
        /\ reported = FailedUnits
        /\ \A k \in DOMAIN printed : printed[k] # None
        /\ (exit_status # <<0>>) <=> (FailedUnits # {})

C18_VariantMajor ==
    (command = "responsive" /\ KnownFormats /\ SizesGiven) =>
        LET nf == Len(formats)
            size(k) == ((k - 1) \div nf) + 1
            format(k) == ((k - 1) % nf) + 1
        IN  /\ \A k \in DOMAIN CompressEvents :
                  /\ CompressEvents[k].unit = [size |-> size(k),
                                               format |-> format(k)]
                  /\ CompressEvents[k].img # None
                  /\ CompressEvents[k].img[1].width = sizes[size(k)][2]
            /\ \A k \in DOMAIN WrittenEvents :
                  WrittenEvents[k].unit = [size |-> size(k),
                                           format |-> format(k)]
            /\ Len(output) = Len(WrittenEvents)
            /\ \A k \in DOMAIN ResizeEvents : ResizeEvents[k].unit.size = k
            /\ ppc \in {"formats", "encode"} =>
                  /\ Len(ResizeEvents) = si
                  /\ override_stem =
                       <<PathStem(source) \o <<"-">> \o sizes[si][1]>>
            /\ exit_status = <<0>> =>
                  /\ Len(output) = Len(sizes) * nf
                  /\ Len(ResizeEvents) = Len(sizes)
            /\ \A k \in DOMAIN output :
                  (~HasDot(PathStem(source)) /\ ~HasDot(sizes[size(k)][1]))
                  => output[k] = PathStem(source) \o <<"-">>
                                   \o sizes[size(k)][1]
                                   \o <<".", formats[format(k)]>>

C18_Witness ==
    /\ command = "responsive"
    /\ source = <<"p", ".", TFORMAT_JPG>>
    /\ formats = <<TFORMAT_JPG, TFORMAT_WEBP>>
    /\ sizes = <<<<<<"s">>, MaxDim - 2>>, <<<<"l">>, MaxDim - 2>>>>
    /\ exit_status = <<0>>
    /\ printed = << <<"p", "-", "s", ".", TFORMAT_JPG>>,
                    <<"p", "-", "s", ".", TFORMAT_WEBP>>,
                    <<"p", "-", "l", ".", TFORMAT_JPG>>,
                    <<"p", "-", "l", ".", TFORMAT_WEBP>> >>

\* C19: the file _compress is about to write is "<stem>.<format>" in
\* compress mode and "<stem>-<name>.<format>" in responsive mode, <stem>
\* being the whole stem of the source, dots in the stem or the name or not.
C19_PathKeepsStemAndName ==
    ppc = "encode" =>
        dest = <<IF command = "compress"
                   THEN PathStem(source) \o <<".", formats[fi]>>
                   ELSE PathStem(source) \o <<"-">> \o sizes[si][1]
                          \o <<".", formats[fi]>>>>

\* C20: in a run with pairwise distinct names of variants and pairwise
\* distinct formats no two units write the same file.
C20_PathsInjective ==
    ( /\ command = "responsive"
      /\ KnownFormats
      /\ SizesGiven
      /\ \A i, j \in DOMAIN sizes : i # j => sizes[i][1] # sizes[j][1]
      /\ \A i, j \in DOMAIN formats : i # j => formats[i] # formats[j] )
    => \A i, j \in DOMAIN disk : i # j => disk[i] # disk[j]

\* C21: no unit writes a file that an earlier unit of the run has written: a
\* unit whose path holds a file fails instead of replacing the file.
C21_NoSilentOverwrite ==
    \A i, j \in DOMAIN disk : i < j => disk[i] # disk[j]

\* C22: a run that ends because the source cannot be opened, because no
\* format or, in responsive mode, no size is given, or because the
\* destination does not exist, has written no file.
C22_FatalBeforeOutput ==
    ( /\ ppc = "exit"
      /\ \/ events = <<>>
         \/ formats = <<>>
         \/ (command = "responsive" /\ sizes = None)
         \/ destination = "missing" )
    => disk = <<>>

C22_Witness ==
    /\ ppc = "exit"
    /\ destination = "missing"
    /\ command = "responsive"
    /\ Len(formats) = 2
    /\ exit_status = <<1>>
    /\ Len(events) = 3
    /\ events[3] = Event("raised", [size |-> 1, format |-> 1])
    /\ disk = <<>>

\* what _resize makes of the source, for every width it does not fail for
ResizedFromSource ==
    [tw \in VariantWidths \ {0} |->
        ThumbnailImage(SourceImage.width, SourceImage.height, tw,
                       TargetHeight(SourceImage.width, SourceImage.height, tw),
                       ThumbnailSize, ThumbnailCrop)]

\* C24: the image of the source keeps its width and height throughout the
\* run, and the image handed to _compress for a variant is what
\* thumbnail_image makes of the source for the width of that variant,
\* whatever the variants before it.
C24_SourceNotMutated ==
    /\ img = SourceImage
    /\ command = "responsive" =>
         \A k \in DOMAIN CompressEvents :
            LET tw == sizes[CompressEvents[k].unit.size][2]
            IN  /\ CompressEvents[k].img # None
                /\ tw \in DOMAIN ResizedFromSource
                /\ CompressEvents[k].img[1] \in ResizedFromSource[tw]

C24_Witness ==
    /\ command = "responsive"
    /\ exit_status = <<0>>
    /\ Len(sizes) = 2
    /\ sizes[1][1] # sizes[2][1]
    /\ Len(CompressEvents) >= 2
    /\ \A k \in DOMAIN CompressEvents :
          CompressEvents[k].img = <<[width |-> MaxDim - 2,
                                     height |-> MaxDim - 3]>>
    /\ img = SourceImage

\* C25: no step of a unit changes args, and every unit, the first or a later
\* one, enters its search with the factor args configures for its format,
\* whatever factor the unit before it has ended with.
C25_SearchLeavesArgs ==
    [][ /\ pc # "returned" => args' = args
        /\ pc' = "required_ssim" =>
             compression_factor' = ConfiguredFactor(args', target_format') ]_vars

C25_Witness ==
    /\ Searching
    /\ first # None
    /\ first[1].start = Start
    /\ first[1].final > Start
    /\ pc = "required_ssim"
    /\ compression_factor = Start

(***************************************************************************)
(* Properties of content_tags.                                             *)
(***************************************************************************)
\* the dictionary of an environment as the handler called last has found it
TagsBefore(env) ==
    IF last[1].before[env] = None THEN <<>> ELSE last[1].before[env][1]

\* the documents of a tag, as CTDoc compares them
Documents(tag) ==
    {[docname |-> e.docname, title |-> e.title] : e \in BagToSet(tag.docs)}

\* the number of entries a tag holds for a docname
Entries(tag, docname) ==
    BagCardinality([e \in {x \in BagToSet(tag.docs) : x.docname = docname}
                      |-> tag.docs[e]])

\* C23: what add_tag_pages returns is the overview page and one page for
\* every tag that has at least one document, and nothing else.
C23_PagesOfUsedTags ==
    (last # None /\ last[1].op = "pages") =>
        tag_pages =
          <<{[pagename |-> <<OverviewUrl>>, tag |-> None,
              template |-> "tag_index.html"]}
            \cup {[pagename |-> GetTags("env")[tag].pagename,
                   tag |-> <<tag>>, template |-> "tag.html"] :
                    tag \in {t \in DOMAIN GetTags("env") :
                               GetTags("env")[t].docs # EmptyBag}}>>

\* C26: after purge_document_from_tags the environment has the tags it had,
\* none of them contains the docname, and every tag contains every other
\* docname exactly if it has contained it before.
C26_PurgeRemovesDocument ==
    (last # None /\ last[1].op = "purge") =>
        LET env == last[1].env
            before == TagsBefore(env)
            after == GetTags(env)
        IN  /\ (ct_tags[env] = None) <=> (last[1].before[env] = None)
            /\ DOMAIN after = DOMAIN before
            /\ \A tag \in DOMAIN after :
                  /\ ~Contains(after[tag], last[1].docname)
                  /\ after[tag].name = before[tag].name
                  /\ \A d \in Docnames \ {last[1].docname} :
                        Contains(after[tag], d) <=> Contains(before[tag], d)

C26_Witness ==
    /\ last # None
    /\ last[1].op = "purge"
    /\ last[1].env = "env"
    /\ last[1].docname = "d1"
    /\ DOMAIN TagsBefore("env") = {<<"a">>, <<"b">>}
    /\ Contains(TagsBefore("env")[<<"a">>], "d1")
    /\ Contains(TagsBefore("env")[<<"a">>], "d2")
    /\ Contains(TagsBefore("env")[<<"b">>], "d1")
    /\ \E e \in BagToSet(TagsBefore("env")[<<"a">>].docs) :
          e.docname = "d1" /\ e.title # e.filed
    /\ Documents(GetTags("env")[<<"a">>]) \subseteq
          {[docname |-> "d2", title |-> t] : t \in {"", "T"}}
    /\ Documents(GetTags("env")[<<"b">>]) = {}

\* C27: after merge_tags every tag of either environment is a tag of the
\* receiving one, with the documents it had there before together with those
\* the other environment has for it; the other environment is as before, and
\* merging it once more changes nothing.
C27_MergeIsUnion ==
    (last # None /\ last[1].op = "merge") =>
        LET before == TagsBefore("env")
            other == TagsBefore("other")
            after == GetTags("env")
        IN  /\ ct_tags["env"] # None
            /\ DOMAIN after = DOMAIN before \cup DOMAIN other
            /\ \A tag \in DOMAIN after :
                  Documents(after[tag]) =
                    Documents(GetItem(before, tag))
                      \cup Documents(GetItem(other, tag))
            /\ ct_tags["other"] = last[1].before["other"]
            /\ MergeTags(after, other) = after

C27_Witness ==
    /\ last # None
    /\ last[1].op = "merge"
    /\ <<"b">> \in DOMAIN TagsBefore("other") \ DOMAIN TagsBefore("env")
    /\ <<"a">> \in DOMAIN TagsBefore("other") \cap DOMAIN TagsBefore("env")
    /\ Documents(TagsBefore("env")[<<"a">>]) # {}
    /\ ~(Documents(TagsBefore("other")[<<"a">>])
           \subseteq Documents(TagsBefore("env")[<<"a">>]))
    /\ ~(Documents(TagsBefore("env")[<<"a">>])
           \subseteq Documents(TagsBefore("other")[<<"a">>]))
    /\ Documents(GetTags("env")[<<"b">>]) # {}

\* C28: in every environment, every tag that has a document has the
\* pagename the template gives for its name.
C28_PagenameSet ==
    \A env \in {"env", "other"} :
        \A tag \in DOMAIN GetTags(env) :
            GetTags(env)[tag].docs # EmptyBag =>
                GetTags(env)[tag].pagename =
                    <<Format(PageUrlTemplate, GetTags(env)[tag].name)>>

\* C30: no tag of any environment holds two entries for one docname.
C30_OneEntryPerDocname ==
    \A env \in {"env", "other"} :
        \A tag \in DOMAIN GetTags(env) :
            \A d \in Docnames : Entries(GetTags(env)[tag], d) <= 1

\* C29: once visit_image has ended for an image, then with at least one
\* responsive source it has returned without an error and has written
\* <picture>, the <source> elements, exactly one <img> and </picture>, the
\* <img> carrying path, width and height of the narrowest source in the file
\* format of the image, and without sources it has only called the original
\* visit_image.
C29_PictureWithOneImg ==
    ipc \notin {"idle", "read", "visit", "fallback"} =>
        IF responsive_sources[1] = {}
          THEN /\ ipc = "returned"
               /\ body = <<[tag |-> "original_visit_image"]>>
          ELSE /\ ipc = "returned"
               /\ Len(body) >= 3
               /\ body[1].tag = "picture"
               /\ body[Len(body)].tag = "/picture"
               /\ \A i \in DOMAIN body :
                     body[i].tag = "img" <=> i = Len(body) - 1
               /\ \A i \in 2..(Len(body) - 2) : body[i].tag = "source"
               /\ uri \in DOMAIN EXT_TO_MIME
               /\ \E src \in responsive_sources[1] :
                     /\ src.mime = EXT_TO_MIME[uri]
                     /\ \A other \in responsive_sources[1] :
                           other.mime = EXT_TO_MIME[uri] =>
                               src.width <= other.width
                     /\ body[Len(body) - 1] = ImgElement(src)

====
